---- MODULE Spec2Model ----
(***************************************************************************)
(* Weather-risk front end of "Will It Rain On My Parade?".                 *)
(*                                                                         *)
(* Modelled here:                                                          *)
(*   - the pure functions of src/src/components/Map2D.tsx:                 *)
(*     calculateWeatherProbabilitiesLocal and calculateComfortIndex;       *)
(*   - the module-level analyzeWeatherRisk used by Earth3DGlobe (backend   *)
(*     call with local fallback);                                          *)
(*   - the analysis state of the two map components, Map2D and             *)
(*     Earth3DGlobe, of which Index mounts exactly one (mapMode).          *)
(*                                                                         *)
(* Units.  JavaScript numbers are modelled by exact fixed-point integers:  *)
(*   latitude     in 1/10000 of a degree      (40.7128 deg  = 407128)      *)
(*   probability  in 1/10000 of a percent     (61.0692 %    = 610692)      *)
(*   confidence   in 1/100                    (0.85         = 85)          *)
(*   weight       in 1/100                    (0.25         = 25)          *)
(* Every latitude of the model is an even number of units, so lat * 1.5    *)
(* is exact.  Rounding is Math.round: half-way cases go up.  The rounding  *)
(* error of IEEE doubles (about 1e-14 here) is not modelled; the inputs of *)
(* calculateComfortIndex are chosen so that 100 x (1 - discomfort) is      *)
(* never within 0.1 of a half-way value, where that error could decide     *)
(* the result of Math.round.                                               *)
(***************************************************************************)
EXTENDS Integers, Sequences, FiniteSets, Bags, TLC

VARIABLES
    \* -- harness of the pure function calculateComfortIndex --------------
    ciProbabilities,     \* the list handed to calculateComfortIndex
    ciResult,            \* what the call on ciProbabilities returned
    \* -- environment ------------------------------------------------------
    tz,                  \* browser time zone, minutes east of UTC
    \* -- Index ------------------------------------------------------------
    mapMode,             \* '3d' | '2d' : which map component is mounted
    selectedLocation,    \* Index.selectedLocation, prop of the mounted map
    \* -- the mounted map component (Map2D or Earth3DGlobe) ---------------
    eventDate,           \* useState<Date>(new Date())
    weatherProbabilities,\* useState([])
    showAnalysis,        \* useState(false)
    isAnalyzing,         \* Map2D only: useState(false)
    inFlight,            \* bag of /analyze requests sent and not yet answered
    lastResult,          \* history: the analyzeWeatherRisk call that completed
                         \* last, its arguments, outcome and returned value
    \* -- the search box of the mounted map component ----------------------
    searchQuery,         \* useState('')
    isSearching,         \* useState(false)
    center,              \* Map2D only: useState({ lat: 0, lng: 0 })
    zoom,                \* Map2D only: useState(2)
    geoPending,          \* bag of geocoding calls handleSearch is awaiting;
                         \* live: the component that made the call is mounted
    lastSearch,          \* history: how the latest handleSearch run went on
                         \* ("none", "blank", "rejected", "reverse", "geocode")
    \* -- Index: the analysis started by 'Analyze Weather Risk' ------------
    indexThresholds,     \* Index.thresholds, useState<any>(null)
    selectedDate,        \* useState<Date>(new Date())
    analysisData,        \* useState<WeatherAnalysisResponse | null>(null)
    showResults,         \* useState(false): the dashboard replaces the map
    indexIsAnalyzing,    \* Index.isAnalyzing, useState(false)
    indexRequest,        \* body of the /analyze request handleAnalyze awaits
    lastAnalyze,         \* history: what the latest handleAnalyze run did
                         \* ("none", "sent", or the title of its toast)
    \* -- exports ----------------------------------------------------------
    exported,            \* the document of the latest export, and who made it
    shown,               \* what the mounted WeatherDashboard rendered last
    \* -- CurrentWeatherWidget ---------------------------------------------
    widgetProps,         \* { latitude, longitude, locationName } it is
                         \* mounted with
    widgetData,          \* weatherData, useState<CurrentWeatherData | null>(null)
    widgetLoading,       \* loading, useState(true)
    widgetError,         \* error # null, useState<string | null>(null)
    widgetPending,       \* bag of fetchWeather() runs awaiting Open-Meteo
    widgetLast,          \* history: the fetchWeather() run that ended last
    \* -- Earth, the globe mesh ---------------------------------------------
    dragStart,           \* dragStartRef.current
    isDragging,          \* useState(false)
    hovered,             \* useState(false)
    hoverPoint,          \* useState<Vector3 | null>(null), as the pointer
                         \* position it was set from
    earthPicks,          \* bag of getLocationName promises handleClick awaits
    lastOnClick,         \* history: the place of the latest onClick call
    gesture,             \* history: the pointer-down not yet followed by a
                         \* click, and the farthest move since
    \* -- getCurrentLocation of the mounted map component -------------------
    isGettingLocation,   \* useState(false)
    currentLocation,     \* useState<{lat, lng} | null>(null)
    locating,            \* bag: the callback or promise getCurrentLocation
                         \* is waiting for
    lastLocate           \* history: how the latest getCurrentLocation run
                         \* ended, and the name it selected

varsCI  == <<ciProbabilities, ciResult>>
varsMap == <<tz, mapMode, selectedLocation, eventDate, weatherProbabilities,
             showAnalysis, isAnalyzing, inFlight, lastResult>>
varsSearch == <<searchQuery, isSearching, geoPending, lastSearch>>
varsView   == <<center, zoom>>
varsIndex  == <<indexThresholds, selectedDate, analysisData, showResults,
                indexIsAnalyzing, indexRequest, lastAnalyze>>
varsDash   == <<exported, shown>>
varsWidget == <<widgetProps, widgetData, widgetLoading, widgetError,
                widgetPending, widgetLast>>
varsPointer == <<dragStart, isDragging, hovered, hoverPoint, earthPicks,
                 lastOnClick, gesture>>
varsLocate == <<isGettingLocation, currentLocation, locating, lastLocate>>
varsApp == <<varsMap, varsSearch, varsView, varsIndex, varsDash, varsWidget>>
\* what the analysis actions of the map components leave alone
varsElse == <<varsCI, varsSearch, varsIndex, varsDash, varsWidget, varsPointer,
              varsLocate>>
vars    == <<ciProbabilities, ciResult, tz, mapMode, selectedLocation,
             eventDate, weatherProbabilities, showAnalysis, isAnalyzing,
             inFlight, lastResult, searchQuery, isSearching, center, zoom,
             geoPending, lastSearch, indexThresholds, selectedDate, analysisData,
             showResults, indexIsAnalyzing, indexRequest, lastAnalyze,
             exported, shown, widgetProps, widgetData, widgetLoading,
             widgetError, widgetPending, widgetLast, dragStart, isDragging,
             hovered, hoverPoint, earthPicks, lastOnClick, gesture,
             isGettingLocation, currentLocation, locating, lastLocate>>

\* no analyzeWeatherRisk call has completed since the component mounted
NoResult == [outcome |-> "none"]

(***************************************************************************)
(* Fixed-point units and Math helpers                                      *)
(***************************************************************************)
\* units per degree and per percentage point
Unit == 100 * 100

Pct(n) == n * Unit

MathMin(a, b) == IF a < b THEN a ELSE b

MathMax(a, b) == IF a > b THEN a ELSE b

MathAbs(a) == IF a < 0 THEN 0 - a ELSE a

\* Math.round of the rational n/d (d > 0): nearest integer, halves go up
MathRoundDiv(n, d) == (2 * n + d) \div (2 * d)

(***************************************************************************)
(* calculateComfortIndex                                                   *)
(***************************************************************************)
KnownConditions == {"Very Hot", "Very Cold", "Heavy Rain", "Strong Wind"}

\* const weights = { 'Very Hot': 0.3, 'Very Cold': 0.3, 'Heavy Rain': 0.25,
\*                   'Strong Wind': 0.15 }, in 1/100
weights == [c \in KnownConditions |->
              CASE c = "Very Hot"    -> 30
                [] c = "Very Cold"   -> 30
                [] c = "Heavy Rain"  -> 25
                [] c = "Strong Wind" -> 15]

\* mutant: an unknown condition is dropped (weight 0)
WeightOfDropUnknown(condition) ==
    IF condition \in KnownConditions THEN weights[condition] ELSE 0

\* mutant: the wind weight has the wrong sign
WeightOfNegativeWind(condition) ==
    IF condition = "Strong Wind" THEN 0 - 15
    ELSE IF condition \in KnownConditions THEN weights[condition] ELSE 10

\* const weight = weights[prob.condition] || 0.1
WeightOf(condition) ==
    IF condition \in KnownConditions THEN weights[condition] ELSE 10

\* the forEach loop: discomfort after the first k entries, in units of
\* 1/(100 * Unit * 100), i.e. sum of weight(1/100) * probability(Unit)
RECURSIVE DiscomfortLoop(_, _)
DiscomfortLoop(probabilities, k) ==
    IF k = 0 THEN 0
    ELSE DiscomfortLoop(probabilities, k - 1)
         + probabilities[k].probability * WeightOf(probabilities[k].condition)

\* mutant: rounds first (towards zero) and clamps afterwards
ComfortIndexTruncates(probabilities) ==
    LET discomfort == DiscomfortLoop(probabilities, Len(probabilities))
        raw        == 100 * 100 * Unit - discomfort
    IN  MathMax(0, MathMin(100, raw \div (100 * Unit)))

\* return Math.round(Math.max(0, Math.min(100, (1 - discomfort) * 100)))
\* (1 - discomfort) * 100 is raw / (100 * Unit) for the integer raw below
calculateComfortIndex(probabilities) ==
    LET discomfort == DiscomfortLoop(probabilities, Len(probabilities))
        raw        == 100 * 100 * Unit - discomfort
        clamped    == MathMax(0, MathMin(100 * 100 * Unit, raw))
    IN  MathRoundDiv(clamped, 100 * Unit)

(***************************************************************************)
(* Harness of calculateComfortIndex: the function is called on a list      *)
(* that grows by one entry of probability 0 at a time, and called again on *)
(* the same list with one entry's probability raised.  Every list of at    *)
(* most MaxLen entries over CIConditions and CIProbValues is reached.      *)
(***************************************************************************)
\* longest input list
MaxLen == 4

\* a condition name that is not one of the four known ones
\* (WeatherDashboard uses it for its fourth gauge)
UnknownCondition == "High Humidity"

CIConditions == KnownConditions \cup {UnknownCondition}

\* with these probabilities every weighted term is a multiple of 0.2
CIProbValues == {Pct(0), Pct(4), Pct(100)}

\* calculateComfortIndex([...list, { condition: c, probability: 0 }])
CIAppend(c) ==
    /\ Len(ciProbabilities) < MaxLen
    /\ ciProbabilities' = Append(ciProbabilities, [condition |-> c, probability |-> Pct(0)])
    /\ ciResult' = calculateComfortIndex(ciProbabilities')
    /\ UNCHANGED <<varsApp, varsPointer, varsLocate>>

\* calculateComfortIndex of the same list with entry i's probability raised
CIRaiseProbability(i, p) ==
    /\ i \in 1..Len(ciProbabilities)
    /\ p > ciProbabilities[i].probability
    /\ ciProbabilities' = [ciProbabilities EXCEPT ![i].probability = p]
    /\ ciResult' = calculateComfortIndex(ciProbabilities')
    /\ UNCHANGED <<varsApp, varsPointer, varsLocate>>

(***************************************************************************)
(* Dates.  A Date is an instant: UTC day of the year 2025 (0 = 1 January)  *)
(* and minute of that day.  getMonth() reads it in the browser's time      *)
(* zone, toISOString() in UTC.                                             *)
(***************************************************************************)
CumDays == <<0, 31, 59, 90, 120, 151, 181, 212, 243, 273, 304, 334, 365>>

\* day of year (0-based), wrapped into one year
DayOfYear(day) == (day + 365) % 365

\* 0-based month of a day of the year
MonthOfDay(day) ==
    CHOOSE m \in 0..11 :
        CumDays[m + 1] <= DayOfYear(day) /\ DayOfYear(day) < CumDays[m + 2]

\* Date.prototype.getMonth: month of the instant in local time
getMonth(date) ==
    MonthOfDay((date.day * 1440 + date.min + tz) \div 1440)

\* date.toISOString().split('T')[0] : the UTC calendar date <<y, m, d>>
ISODate(date) ==
    <<2025, MonthOfDay(date.day) + 1, DayOfYear(date.day) - CumDays[MonthOfDay(date.day) + 1] + 1>>

\* new Date("2025-mm-dd"), the value of a date input: UTC midnight
DateInput(month, dom) == [day |-> CumDays[month] + dom - 1, min |-> 0]

\* new Date() at the time the component mounts: 1 June 2025, 00:30 UTC
Now == [day |-> CumDays[6], min |-> 30]

\* the dates the user picks in the date input
InputDates == {DateInput(7, 4), DateInput(12, 1)}

\* time zones of the browser, minutes east of UTC (New York in winter, UTC,
\* India)
TimeZones == {0 - 300, 0, 330}

\* the calendar date <<y, m, d>> of an instant in the browser's time zone:
\* the day the calendar highlights for it
LocalDate(date) ==
    LET day == (date.day * 1440 + date.min + tz) \div 1440
    IN  <<2025, MonthOfDay(day) + 1, DayOfYear(day) - CumDays[MonthOfDay(day) + 1] + 1>>

(***************************************************************************)
(* Locations and thresholds                                                *)
(***************************************************************************)
\* selectedLocation: null
NoLocation == [null |-> TRUE]

\* Index.thresholds: null
NoThresholds == [null |-> TRUE]

\* Index.analysisData: null
NoAnalysis == [null |-> TRUE]

\* Index.handleAnalyze awaits no response
NoRequest == [null |-> TRUE]

\* nothing has been exported
NoExport == [by |-> "nobody"]

NewYork == [lat |-> 407128, lng |-> 0 - 740060]

Locations == {NewYork,
              [lat |-> 0, lng |-> 0],
              [lat |-> 0 - 90 * Unit, lng |-> 0]}

\* useState({ hotTemp: 32, coldTemp: 0, precipitation: 5, windSpeed: 15 });
\* neither component ever calls its setter
weatherThresholds ==
    [hotTemp |-> 32, coldTemp |-> 0, precipitation |-> 5, windSpeed |-> 15]

(***************************************************************************)
(* calculateWeatherProbabilitiesLocal                                      *)
(***************************************************************************)
\* mutant: the cold probability is not capped at 90
LocalVeryColdUncapped(lat, month) ==
    MathMax(Pct(5), (lat * 3) \div 2 + (IF month >= 11 \/ month <= 2 THEN Pct(40) ELSE 0))

\* Math.min(90, Math.max(5, lat * 1.5 + (month >= 11 || month <= 2 ? 40 : 0)))
LocalVeryCold(lat, month) ==
    MathMin(Pct(90),
            MathMax(Pct(5), (lat * 3) \div 2
                            + (IF month >= 11 \/ month <= 2 THEN Pct(40) ELSE 0)))

\* Math.min(90, Math.max(5, (30 - lat) * 2 + (month >= 5 && month <= 8 ? 30 : 0)))
LocalVeryHot(lat, month) ==
    MathMin(Pct(90),
            MathMax(Pct(5), (Pct(30) - lat) * 2
                            + (IF month >= 5 /\ month <= 8 THEN Pct(30) ELSE 0)))

\* Math.min(85, Math.max(10, 25 + (month >= 6 && month <= 9 ? 35 : 0) + (lat < 10 ? 20 : 0)))
LocalHeavyRain(lat, month) ==
    MathMin(Pct(85),
            MathMax(Pct(10), Pct(25)
                             + (IF month >= 6 /\ month <= 9 THEN Pct(35) ELSE 0)
                             + (IF lat < Pct(10) THEN Pct(20) ELSE 0)))

\* Math.min(75, Math.max(8, 15 + (lat > 40 ? 25 : 0) + (month >= 10 || month <= 3 ? 20 : 0)))
LocalStrongWind(lat, month) ==
    MathMin(Pct(75),
            MathMax(Pct(8), Pct(15)
                            + (IF lat > Pct(40) THEN Pct(25) ELSE 0)
                            + (IF month >= 10 \/ month <= 3 THEN Pct(20) ELSE 0)))

\* the four entries of the returned array, for lat = Math.abs(location.lat)
\* and month = date.getMonth()
LocalEntries(lat, month, thresholds) ==
    << [condition |-> "Very Hot", probability |-> LocalVeryHot(lat, month),
        threshold |-> <<">", thresholds.hotTemp, "C">>,
        trend |-> IF lat < Pct(30) THEN "increasing" ELSE "stable",
        confidence |-> 85],
       [condition |-> "Very Cold", probability |-> LocalVeryCold(lat, month),
        threshold |-> <<"<", thresholds.coldTemp, "C">>,
        trend |-> IF lat > Pct(40) THEN "increasing" ELSE "stable",
        confidence |-> 78],
       [condition |-> "Heavy Rain", probability |-> LocalHeavyRain(lat, month),
        threshold |-> <<">", thresholds.precipitation, "mm">>,
        trend |-> "increasing",
        confidence |-> 72],
       [condition |-> "Strong Wind", probability |-> LocalStrongWind(lat, month),
        threshold |-> <<">", thresholds.windSpeed, "m/s">>,
        trend |-> "stable",
        confidence |-> 65] >>

\* calculateWeatherProbabilitiesLocal for a latitude and a getMonth() value
calculateWeatherProbabilitiesLocalAt(latitude, month) ==
    LocalEntries(MathAbs(latitude), month, weatherThresholds)

\* mutant: the month is taken from the component's current eventDate
\* (a stale or captured state) instead of the date argument
LocalProbabilitiesFromState(location, date, thresholds) ==
    LocalEntries(MathAbs(location.lat), getMonth(eventDate), thresholds)

calculateWeatherProbabilitiesLocal(location, date, thresholds) ==
    LocalEntries(MathAbs(location.lat), getMonth(date), thresholds)

(***************************************************************************)
(* The backend's POST /analyze.  Its code is not part of the front-end     *)
(* sources; it is modelled from the written contract: four entries, each   *)
(* probability in [0, 100], each confidence in [0, 1], a comfort index     *)
(* aggregated by the weighted formula, an entry without usable years       *)
(* (confidence 0) labelled "stable".                                       *)
(***************************************************************************)
ContractWeight(condition) ==
    CASE condition = "Very Hot"    -> 30
      [] condition = "Very Cold"   -> 30
      [] condition = "Heavy Rain"  -> 25
      [] condition = "Strong Wind" -> 15
      [] OTHER                     -> 10

RECURSIVE ContractDiscomfort(_)
ContractDiscomfort(results) ==
    IF results = <<>> THEN 0
    ELSE Head(results).probability * ContractWeight(Head(results).condition)
         + ContractDiscomfort(Tail(results))

\* comfort_index = round(100 x (1 - discomfort)), clamped to [0, 100]
aggregate(results) ==
    MathMax(0, MathMin(100,
        MathRoundDiv(100 * 100 * Unit - ContractDiscomfort(results), 100 * Unit)))

\* <<probability, confidence>> of the answers the model lets the backend
\* give: the two ends of both ranges
BackendCases == {<<Pct(0), 100>>, <<Pct(100), 0>>}

BackendProbabilities(body, p, c) ==
    LET entry(name, cmp, value, unit) ==
            [condition |-> name, probability |-> p,
             threshold |-> <<cmp, value, unit>>,
             trend |-> IF c = 0 THEN "stable" ELSE "decreasing",
             confidence |-> c]
    IN  << entry("Very Hot", ">", body.thresholds.hot_temp, "C"),
           entry("Very Cold", "<", body.thresholds.cold_temp, "C"),
           entry("Heavy Rain", ">", body.thresholds.precipitation, "mm"),
           entry("Strong Wind", ">", body.thresholds.wind_speed, "m/s") >>

\* the ISO date k days after the ISO date <<2025, month, day>>
ISOAddDays(iso, k) ==
    LET day == CumDays[iso[2]] + iso[3] - 1 + k
    IN  <<2025, MonthOfDay(day) + 1,
          DayOfYear(day) - CumDays[MonthOfDay(day) + 1] + 1>>

\* the margin by which a candidate's index must differ from the target's
RecommendMargin == 5

\* 4.7: "Better" if the index exceeds the target date's own by a margin,
\* "Risky" if below by a margin, "Monitor" in between
RecommendationLabel(comfort, target) ==
    IF comfort > target + RecommendMargin THEN "Better"
    ELSE IF comfort < target - RecommendMargin THEN "Risky"
    ELSE "Monitor"

\* 4.7 recommend: the candidates, ordered by comfort_index descending,
\* ties broken by the smaller absolute offset.  The comfort indexes of the
\* offset dates are those of a target at one end of the scale: two equal
\* ones half-way up and one equal to the target's.
recommend(target, event_date) ==
    LET candidate(offset, comfort) ==
            [date           |-> ISOAddDays(event_date, offset),
             comfort_index  |-> comfort,
             offset_days    |-> offset,
             recommendation |-> RecommendationLabel(comfort, target)]
    IN  IF target >= 50
        THEN << candidate(2, target), candidate(1, 50), candidate(0 - 3, 50) >>
        ELSE << candidate(0 - 1, 50), candidate(3, 50), candidate(2, target) >>

\* the JSON documents the backend may answer a request with
BackendAnalyze(body) ==
    { [location          |-> [latitude  |-> body.latitude,
                              longitude |-> body.longitude],
       event_date        |-> body.event_date,
       probabilities     |-> BackendProbabilities(body, p, c),
       comfort_index     |-> aggregate(BackendProbabilities(body, p, c)),
       alternative_dates |-> recommend(aggregate(BackendProbabilities(body, p, c)),
                                       body.event_date),
       metadata          |-> [datasets_used |-> <<"MERRA-2", "GPM IMERG">>]] :
      <<p, c>> \in BackendCases }

(***************************************************************************)
(* analyzeWeatherRisk, the module-level function Earth3DGlobe calls        *)
(***************************************************************************)
\* a call in progress: the arguments the pending promise closes over
Call(location, date) ==
    [location |-> location, date |-> date, thresholds |-> weatherThresholds]

\* body: JSON.stringify({ latitude, longitude, event_date, thresholds })
RequestBody(call) ==
    [latitude   |-> call.location.lat,
     longitude  |-> call.location.lng,
     event_date |-> ISODate(call.date),
     thresholds |-> [hot_temp      |-> call.thresholds.hotTemp,
                     cold_temp     |-> call.thresholds.coldTemp,
                     precipitation |-> call.thresholds.precipitation,
                     wind_speed    |-> call.thresholds.windSpeed]]

\* the value returned after response.ok and response.json()
analyzeWeatherRiskOk(data) ==
    [probabilities |-> data.probabilities,
     comfortIndex  |-> data.comfort_index,
     alternatives  |-> data.alternative_dates,
     metadata      |-> data.metadata]

\* the value returned from the catch block
analyzeWeatherRiskFallback(call) ==
    [probabilities |-> calculateWeatherProbabilitiesLocal(call.location, call.date,
                                                          call.thresholds),
     comfortIndex  |-> 65,
     alternatives  |-> <<>>,
     metadata      |-> [datasets_used |-> <<"Fallback simulation">>,
                        note |-> "Backend unavailable, using local simulation"]]

(***************************************************************************)
(* Index and the two map components.  Index renders Earth3DGlobe when      *)
(* mapMode is '3d' and Map2D when it is '2d'; switching unmounts one and   *)
(* mounts the other with fresh state.  Answers to requests of an           *)
(* unmounted component only set state nobody reads, so its requests leave  *)
(* the model when it unmounts.                                             *)
(***************************************************************************)
\* most /analyze requests awaiting an answer at one time
MaxInFlight == 2

Pending == BagCardinality(inFlight)

Send(call) == inFlight (+) SetToBag({call})

Answered(call) == inFlight (-) SetToBag({call})

\* history: the call completing now falls back, and so did the call that
\* completed before it, with the same arguments
RepeatsFallback(call) ==
    /\ lastResult.outcome = "fallback"
    /\ lastResult.call = call

\* ---- Earth3DGlobe ------------------------------------------------------
\* the effect on [selectedLocation, eventDate, weatherThresholds], run with
\* the values of the render that scheduled it: it starts analyzeWeather()
GlobeAnalysisEffect(location, date) ==
    IF location # NoLocation
    THEN /\ inFlight' = Send(Call(location, date))
         /\ UNCHANGED showAnalysis
    ELSE /\ showAnalysis' = FALSE
         /\ UNCHANGED inFlight

\* Index.handleLocationSelect while the globe is mounted (click, search,
\* current location): a new location object, so the effect runs again
GlobeSelectLocation(l) ==
    /\ ~showResults
    /\ mapMode = "3d"
    /\ Pending < MaxInFlight
    /\ selectedLocation' = l
    /\ GlobeAnalysisEffect(l, eventDate)
    /\ UNCHANGED <<varsElse, varsView, tz, mapMode, eventDate, weatherProbabilities, isAnalyzing,
                   lastResult>>

\* onChange of the globe's date input with a valid date
GlobeChangeDate(d) ==
    /\ ~showResults
    /\ mapMode = "3d"
    /\ Pending < MaxInFlight
    /\ ISODate(d) # ISODate(eventDate)
    /\ eventDate' = d
    /\ GlobeAnalysisEffect(selectedLocation, d)
    /\ UNCHANGED <<varsElse, varsView, tz, mapMode, selectedLocation, weatherProbabilities,
                   isAnalyzing, lastResult>>

\* a place is picked on the globe while none of its analyses is pending
GlobePickPlace(l) ==
    /\ Pending = 0
    /\ GlobeSelectLocation(l)

\* the backend answers 2xx: analyzeWeatherRisk resolves with the response,
\* analyzeWeather stores its probabilities
GlobeAnalyzeOk(call, data) ==
    /\ mapMode = "3d"
    /\ BagIn(call, inFlight)
    /\ data \in BackendAnalyze(RequestBody(call))
    /\ inFlight' = Answered(call)
    /\ lastResult' = [call |-> call, outcome |-> "backend", repeated |-> FALSE,
                      value |-> analyzeWeatherRiskOk(data)]
    /\ weatherProbabilities' = lastResult'.value.probabilities
    /\ showAnalysis' = TRUE
    /\ UNCHANGED <<varsElse, varsView, tz, mapMode, selectedLocation, eventDate, isAnalyzing>>

\* fetch rejects or the status is not ok: analyzeWeatherRisk resolves with
\* the local simulation, analyzeWeather stores its probabilities
GlobeAnalyzeFail(call) ==
    /\ mapMode = "3d"
    /\ BagIn(call, inFlight)
    /\ inFlight' = Answered(call)
    /\ lastResult' = [call |-> call, outcome |-> "fallback",
                      repeated |-> RepeatsFallback(call),
                      value |-> analyzeWeatherRiskFallback(call)]
    /\ weatherProbabilities' = lastResult'.value.probabilities
    /\ showAnalysis' = TRUE
    /\ UNCHANGED <<varsElse, varsView, tz, mapMode, selectedLocation, eventDate, isAnalyzing>>

\* ---- Map2D -------------------------------------------------------------
\* Map2D.analyzeWeatherRisk up to its await: setIsAnalyzing(true), fetch
Map2DStartAnalysis(location, date, n) ==
    /\ isAnalyzing' = TRUE
    /\ inFlight' = IF n = 2
                   THEN Send(Call(location, date)) (+) SetToBag({Call(location, date)})
                   ELSE Send(Call(location, date))

\* the effect on [selectedLocation] for a location: setCenter, setZoom(10),
\* analyzeWeatherRisk(lat, lng, eventDate)
Map2DLocationEffect(l) ==
    /\ center' = [lat |-> l.lat, lng |-> l.lng]
    /\ zoom' = 10
    /\ Map2DStartAnalysis(l, eventDate, 1)

\* Index.handleLocationSelect while Map2D is mounted: the selectedLocation
\* effect runs
Map2DSelectLocation(l) ==
    /\ ~showResults
    /\ mapMode = "2d"
    /\ Pending < MaxInFlight
    /\ selectedLocation' = l
    /\ Map2DLocationEffect(l)
    /\ UNCHANGED <<varsElse, tz, mapMode, eventDate, weatherProbabilities,
                   showAnalysis, lastResult>>

\* onChange of Map2D's date input: setEventDate(new Date(value)), then the
\* eventDate effect
Map2DChangeDate(d) ==
    /\ ~showResults
    /\ mapMode = "2d"
    /\ Pending < MaxInFlight
    /\ ISODate(d) # ISODate(eventDate)
    /\ eventDate' = d
    /\ IF selectedLocation # NoLocation
       THEN Map2DStartAnalysis(selectedLocation, d, 1)
       ELSE UNCHANGED <<isAnalyzing, inFlight>>
    /\ UNCHANGED <<varsElse, varsView, tz, mapMode, selectedLocation, weatherProbabilities,
                   showAnalysis, lastResult>>

\* the 'Check My Day' button, disabled={!selectedLocation || isAnalyzing}
Map2DCheckMyDay ==
    /\ ~showResults
    /\ mapMode = "2d"
    /\ Pending < MaxInFlight
    /\ selectedLocation # NoLocation
    /\ ~isAnalyzing
    /\ Map2DStartAnalysis(selectedLocation, eventDate, 1)
    /\ UNCHANGED <<varsElse, varsView, tz, mapMode, selectedLocation, eventDate,
                   weatherProbabilities, showAnalysis, lastResult>>

\* res.ok: setWeatherProbabilities(data.probabilities || []),
\* setShowAnalysis(true), finally setIsAnalyzing(false)
Map2DAnalyzeOk(call, data) ==
    /\ mapMode = "2d"
    /\ BagIn(call, inFlight)
    /\ data \in BackendAnalyze(RequestBody(call))
    /\ inFlight' = Answered(call)
    /\ weatherProbabilities' = data.probabilities
    /\ showAnalysis' = TRUE
    /\ isAnalyzing' = FALSE
    /\ lastResult' = [call |-> call, outcome |-> "backend", repeated |-> FALSE,
                      value |-> [returned |-> "undefined"]]
    /\ UNCHANGED <<varsElse, varsView, tz, mapMode, selectedLocation, eventDate>>

\* fetch rejects or !res.ok: catch setShowAnalysis(false), finally
\* setIsAnalyzing(false)
Map2DAnalyzeFail(call) ==
    /\ mapMode = "2d"
    /\ BagIn(call, inFlight)
    /\ inFlight' = Answered(call)
    /\ showAnalysis' = FALSE
    /\ isAnalyzing' = FALSE
    /\ lastResult' = [call |-> call, outcome |-> "error", repeated |-> FALSE,
                      value |-> [returned |-> "undefined"]]
    /\ UNCHANGED <<varsElse, varsView, tz, mapMode, selectedLocation, eventDate, weatherProbabilities>>

\* ---- handleSearch (Map2D and Earth3DGlobe) ----------------------------
\* The text of the search box, by the shapes the regular expressions of
\* parseCoordinates tell apart.  Numbers are in 1/10000 of a degree.
\*   "basic"    "lat, lng" or "lat lng"  (formats 1 and 3), signed numbers
\*   "degrees"  "lat(deg)N, lng(deg)E"   (format 2); its expression takes
\*              no sign, so a signed number makes the text match nothing
\*   "name"     any other non-blank text
\*   "blank"    empty or white space
BlankQuery == [format |-> "blank"]

BasicQuery(lat, lng) == [format |-> "basic", lat |-> lat, lng |-> lng]

DegreesQuery(lat, ns, lng, ew) ==
    [format |-> "degrees", lat |-> lat, ns |-> ns, lng |-> lng, ew |-> ew]

NameQuery(text) == [format |-> "name", text |-> text]

\* parseCoordinates returned null
NoCoordinates == [null |-> TRUE]

parseCoordinates(query) ==
    CASE query.format = "basic" -> [lat |-> query.lat, lng |-> query.lng]
      [] query.format = "degrees" /\ query.lat >= 0 /\ query.lng >= 0 ->
            [lat |-> IF query.ns = "S" THEN 0 - query.lat ELSE query.lat,
             lng |-> IF query.ew = "W" THEN 0 - query.lng ELSE query.lng]
      [] OTHER -> NoCoordinates

\* mutant: only the latitude is validated
ValidCoordinatesLatitudeOnly(coords) ==
    coords.lat >= 0 - 90 * Unit /\ coords.lat <= 90 * Unit

\* coords.lat >= -90 && coords.lat <= 90 && coords.lng >= -180 &&
\* coords.lng <= 180
ValidCoordinates(coords) ==
    /\ coords.lat >= 0 - 90 * Unit /\ coords.lat <= 90 * Unit
    /\ coords.lng >= 0 - 180 * Unit /\ coords.lng <= 180 * Unit

\* what the user types: both bounds met exactly, each bound passed by
\* 0.0002 degrees, a signed number in degree format, a place name
SearchQueries ==
    { DegreesQuery(90 * Unit, "S", 180 * Unit, "W"),
      BasicQuery(90 * Unit + 2, 0),
      DegreesQuery(0, "N", 180 * Unit + 2, "W"),
      DegreesQuery(0 - 95 * Unit, "N", 10 * Unit, "E"),
      NameQuery("Paris") }

\* what GEOCODING_API.geocode resolves to: a place or null
GeocodeResults(query) ==
    IF query = NameQuery("Paris")
    THEN {[lat |-> 488566, lng |-> 23522], NoCoordinates}
    ELSE {NoCoordinates}

\* the results a pending geocoding call may settle with in GeocodeDone
GeocodeAnswers(call) ==
    IF call.kind = "geocode" THEN GeocodeResults(call.query) ELSE {}

\* most geocoding calls awaited at one time
MaxGeoPending == 1

\* useState({ lat: 0, lng: 0 })
InitialCenter == [lat |-> 0, lng |-> 0]

\* onChange of the search input
TypeQuery(q) ==
    /\ ~showResults
    /\ q # searchQuery
    /\ searchQuery' = q
    /\ UNCHANGED <<varsCI, varsWidget, varsPointer, varsLocate, varsDash, varsIndex, varsMap, varsView, isSearching, geoPending, lastSearch>>

\* handleSearch up to its first await (button click or Enter key)
HandleSearch ==
    /\ ~showResults
    /\ IF searchQuery = BlankQuery
       THEN /\ lastSearch' = "blank"
            /\ UNCHANGED <<isSearching, geoPending>>
       ELSE LET coords == parseCoordinates(searchQuery)
            IN  IF coords # NoCoordinates
                THEN IF ValidCoordinates(coords)
                     THEN /\ BagCardinality(geoPending) < MaxGeoPending
                          /\ lastSearch' = "reverse"
                          /\ isSearching' = TRUE
                          /\ geoPending' = geoPending (+) SetToBag(
                                 {[kind |-> "reverse", coords |-> coords,
                                   live |-> TRUE]})
                     \* alert('Invalid coordinates. ...')
                     ELSE /\ lastSearch' = "rejected"
                          /\ isSearching' = FALSE
                          /\ UNCHANGED geoPending
                ELSE /\ BagCardinality(geoPending) < MaxGeoPending
                     /\ lastSearch' = "geocode"
                     /\ isSearching' = TRUE
                     /\ geoPending' = geoPending (+) SetToBag(
                            {[kind |-> "geocode", query |-> searchQuery,
                              live |-> TRUE]})
    /\ UNCHANGED <<varsCI, varsWidget, varsPointer, varsLocate, varsDash, varsIndex, varsMap, varsView, searchQuery>>

\* the rest of handleSearch once a place is known: onLocationSelect (Index
\* sets selectedLocation, the effect of the mounted map on it runs),
\* setCenter, setZoom, setSearchQuery(''), setIsSearching(false); the
\* setters of a component that has unmounted do nothing
SearchLocated(call, place) ==
    /\ Pending < MaxInFlight
    /\ geoPending' = geoPending (-) SetToBag({call})
    /\ selectedLocation' = place
    /\ IF showResults
       THEN UNCHANGED <<showAnalysis, inFlight, isAnalyzing, center, zoom>>
       ELSE IF mapMode = "3d"
       THEN /\ GlobeAnalysisEffect(place, eventDate)
            /\ UNCHANGED <<isAnalyzing, center, zoom>>
       ELSE /\ Map2DLocationEffect(place)
            /\ UNCHANGED showAnalysis
    /\ IF call.live
       THEN /\ searchQuery' = BlankQuery
            /\ isSearching' = FALSE
       ELSE UNCHANGED <<searchQuery, isSearching>>
    /\ UNCHANGED <<varsCI, varsWidget, varsPointer, varsLocate, varsDash, varsIndex, tz, mapMode, eventDate,
                   weatherProbabilities, lastResult, lastSearch>>

\* GEOCODING_API.reverseGeocode settles (with a name or with null: the
\* place selected is the parsed coordinates either way)
ReverseGeocodeDone(call) ==
    /\ BagIn(call, geoPending)
    /\ call.kind = "reverse"
    /\ SearchLocated(call, call.coords)

\* GEOCODING_API.geocode settles
GeocodeDone(call, result) ==
    /\ BagIn(call, geoPending)
    /\ call.kind = "geocode"
    /\ result \in GeocodeAnswers(call)
    /\ IF result # NoCoordinates
       THEN SearchLocated(call, result)
       \* alert('Location not found. ...')
       ELSE /\ geoPending' = geoPending (-) SetToBag({call})
            /\ isSearching' = (isSearching /\ ~call.live)
            /\ UNCHANGED <<varsCI, varsWidget, varsPointer, varsLocate, varsDash, varsIndex, varsMap, varsView, searchQuery,
                           lastSearch>>

\* ---- Index: mounting and unmounting the map --------------------------
\* the geocoding calls still awaited when their component unmounts
Orphaned(calls) ==
    LET orphan(call) == [call EXCEPT !.live = FALSE]
        orphans      == {orphan(call) : call \in BagToSet(calls)}
    IN  [o \in orphans |->
            CopiesIn(o, calls) + CopiesIn([o EXCEPT !.live = TRUE], calls)]

\* the state of a map component after its first render and effects
FreshMap(requests, analyzing, viewCenter, viewZoom) ==
    /\ eventDate' = Now
    /\ weatherProbabilities' = <<>>
    /\ showAnalysis' = FALSE
    /\ lastResult' = NoResult
    /\ searchQuery' = BlankQuery
    /\ isSearching' = FALSE
    /\ geoPending' = Orphaned(geoPending)
    /\ inFlight' = requests
    /\ isAnalyzing' = analyzing
    /\ center' = viewCenter
    /\ zoom' = viewZoom

\* map component m mounts with its initial state and its effects run once
MountMap(m) ==
    IF selectedLocation = NoLocation
    THEN FreshMap(EmptyBag, FALSE, InitialCenter, 2)
    ELSE IF m = "3d"
    THEN FreshMap(SetToBag({Call(selectedLocation, Now)}), FALSE,
                  InitialCenter, 2)
    \* Map2D: the selectedLocation effect and the eventDate effect both
    \* run on mount and both call analyzeWeatherRisk
    ELSE FreshMap(SetToBag({Call(selectedLocation, Now)})
                      (+) SetToBag({Call(selectedLocation, Now)}),
                  TRUE,
                  [lat |-> selectedLocation.lat, lng |-> selectedLocation.lng],
                  10)

\* the map component unmounts (Index renders the dashboard instead)
UnmountMap == FreshMap(EmptyBag, FALSE, InitialCenter, 2)

\* setMapMode(m), the 3D Globe / 2D Map toggle: the other component mounts
SetMapMode(m) ==
    /\ ~showResults
    /\ m # mapMode
    /\ mapMode' = m
    /\ MountMap(m)
    /\ UNCHANGED <<varsCI, varsWidget, varsPointer, varsLocate, varsDash, varsIndex, tz, selectedLocation, lastSearch>>

\* ---- Index: 'Analyze Weather Risk' -----------------------------------
\* the date the calendar hands to onSelect: midnight of the picked day in
\* the browser's time zone
LocalMidnight(month, dom) ==
    LET minutes == (CumDays[month] + dom - 1) * 1440 - tz
    IN  [day |-> minutes \div 1440, min |-> minutes % 1440]

\* the days the user picks in the calendar, as <<month, day of month>>
CalendarDays == {<<7, 4>>}

\* what DateThresholdSelector hands to onThresholdsChange: one threshold
\* enabled, two disabled
ThresholdChoices ==
    { [temperature   |-> [enabled |-> TRUE, value |-> 35],
       precipitation |-> [enabled |-> FALSE, value |-> 10],
       wind          |-> [enabled |-> FALSE, value |-> 20]] }

\* requestData of handleAnalyze
IndexRequestBody(location, date, chosen) ==
    [latitude        |-> location.lat,
     longitude       |-> location.lng,
     event_date      |-> ISODate(date),
     thresholds      |->
        [hot_temp      |-> IF chosen.temperature.enabled
                           THEN chosen.temperature.value ELSE 32,
         cold_temp     |-> 0,
         precipitation |-> IF chosen.precipitation.enabled
                           THEN chosen.precipitation.value ELSE 5,
         wind_speed    |-> IF chosen.wind.enabled
                           THEN chosen.wind.value ELSE 15],
     is_current_date |-> (ISODate(date) = ISODate(Now))]

\* onThresholdsChange={setThresholds}
IndexSetThresholds(chosen) ==
    /\ ~showResults
    /\ chosen # indexThresholds
    /\ indexThresholds' = chosen
    /\ UNCHANGED <<varsCI, varsWidget, varsPointer, varsLocate, varsDash, varsMap, varsSearch, varsView, selectedDate,
                   analysisData, showResults, indexIsAnalyzing, indexRequest,
                   lastAnalyze>>

\* the calendar's onSelect, or the 'Today' button (setSelectedDate(new Date()))
IndexSelectDate(d) ==
    /\ ~showResults
    /\ d # selectedDate
    /\ selectedDate' = d
    /\ UNCHANGED <<varsCI, varsWidget, varsPointer, varsLocate, varsDash, varsMap, varsSearch, varsView, indexThresholds,
                   analysisData, showResults, indexIsAnalyzing, indexRequest,
                   lastAnalyze>>

\* handleAnalyze as it would run from a button that is not disabled while
\* isAnalyzing
HandleAnalyzeNeverDisabled ==
    /\ IF selectedLocation = NoLocation \/ indexThresholds = NoThresholds
       THEN /\ lastAnalyze' = "Missing Information"
            /\ UNCHANGED <<indexIsAnalyzing, indexRequest>>
       ELSE /\ ~showResults
            /\ indexIsAnalyzing' = TRUE
            /\ indexRequest' = IndexRequestBody(selectedLocation, selectedDate,
                                                indexThresholds)
            /\ lastAnalyze' = "sent"
    /\ UNCHANGED <<varsCI, varsWidget, varsPointer, varsLocate, varsDash, varsMap, varsSearch, varsView, indexThresholds,
                   selectedDate, analysisData, showResults>>

\* handleAnalyze up to its await.  selectedDate is always a Date, so of the
\* three tests of its first line that one never decides.  The button that
\* calls it is rendered once a location and thresholds are set, and is
\* disabled while isAnalyzing; the function is also called here without
\* them, which is what its first test is for.
HandleAnalyze ==
    /\ IF selectedLocation = NoLocation \/ indexThresholds = NoThresholds
       THEN /\ lastAnalyze' = "Missing Information"
            /\ UNCHANGED <<indexIsAnalyzing, indexRequest>>
       ELSE /\ ~showResults
            /\ ~indexIsAnalyzing
            /\ indexIsAnalyzing' = TRUE
            /\ indexRequest' = IndexRequestBody(selectedLocation, selectedDate,
                                                indexThresholds)
            /\ lastAnalyze' = "sent"
    /\ UNCHANGED <<varsCI, varsWidget, varsPointer, varsLocate, varsDash, varsMap, varsSearch, varsView, indexThresholds,
                   selectedDate, analysisData, showResults>>

\* a || b on numbers: 0 is falsy
NumberOr(a, b) == IF a = 0 THEN b ELSE a

\* WeatherDashboard: const weatherData = data || { ... }; Index passes no
\* data prop, so this is the built-in record.  Probabilities in percent.
weatherData ==
    [temperature      |-> [value |-> 32, probability |-> 22],
     precipitation    |-> [value |-> 5, probability |-> 35],
     wind             |-> [value |-> 15, probability |-> 12],
     humidity         |-> [value |-> 70, probability |-> 45],
     comfortScore     |-> 72,
     alternativeDates |-> <<"July 2", "July 8", "July 15">>]

\* Math.floor(Math.random() * 30) + 70 is some whole number in 70..99;
\* three of them, the least and the greatest included
RandomComfort == {70, 85, 99}
Rolls == [1..Len(weatherData.alternativeDates) -> RandomComfort]
NoRolls == [i \in 1..Len(weatherData.alternativeDates) |-> 70]

\* the list the 'Alternative Dates' card maps over:
\* analysisData?.alternative_dates || weatherData.alternativeDates.map(...);
\* an array is truthy even when empty, so the built-in list is used only
\* when there is no analysisData; rolls are the Math.random() draws of
\* this render
DashboardAlternatives(response, rolls) ==
    IF response # NoAnalysis
    THEN response.alternative_dates
    ELSE [i \in 1..Len(weatherData.alternativeDates) |->
            [date           |-> weatherData.alternativeDates[i],
             comfort_index  |-> rolls[i],
             offset_days    |-> 0,
             recommendation |-> "Better"]]

\* what WeatherDashboard renders: the comfort score card and the four
\* metric cards read weatherData, the alternative dates card reads the list
\* above, in list order
DashboardView(response, rolls) ==
    [mounted      |-> TRUE,
     comfortScore |-> weatherData.comfortScore,
     gauges       |-> [temperature   |-> weatherData.temperature.probability,
                       precipitation |-> weatherData.precipitation.probability,
                       wind          |-> weatherData.wind.probability,
                       humidity      |-> weatherData.humidity.probability],
     alternatives |-> DashboardAlternatives(response, rolls)]

\* Index renders the map, not the dashboard
NoView == [mounted |-> FALSE]

\* the responses the pending request of handleAnalyze may be answered with
IndexAnswers ==
    IF indexRequest = NoRequest THEN {} ELSE BackendAnalyze(indexRequest)

\* the successful path without setAnalysisData(data)
IndexAnalyzeOkDataDropped(data) ==
    /\ indexRequest # NoRequest
    /\ data \in BackendAnalyze(indexRequest)
    /\ analysisData' = analysisData
    /\ showResults' = TRUE
    /\ indexIsAnalyzing' = FALSE
    /\ indexRequest' = NoRequest
    /\ lastAnalyze' = "Analysis Complete!"
    /\ UnmountMap
    /\ shown' = DashboardView(data, NoRolls)
    /\ UNCHANGED <<varsCI, varsWidget, varsPointer, varsLocate, exported, tz, mapMode, selectedLocation, lastSearch,
                   indexThresholds, selectedDate>>

\* response.ok: setAnalysisData(data), setShowResults(true), the toast,
\* finally setIsAnalyzing(false); Index now renders the dashboard in place
\* of the map
IndexAnalyzeOk(data) ==
    /\ indexRequest # NoRequest
    /\ data \in BackendAnalyze(indexRequest)
    /\ analysisData' = data
    /\ showResults' = TRUE
    /\ indexIsAnalyzing' = FALSE
    /\ indexRequest' = NoRequest
    /\ lastAnalyze' = "Analysis Complete!"
    /\ UnmountMap
    /\ shown' = DashboardView(data, NoRolls)
    /\ UNCHANGED <<varsCI, varsWidget, varsPointer, varsLocate, exported, tz, mapMode, selectedLocation, lastSearch,
                   indexThresholds, selectedDate>>

\* a catch block that also discards the analysis held so far
IndexAnalyzeFailClearsData ==
    /\ indexRequest # NoRequest
    /\ indexIsAnalyzing' = FALSE
    /\ indexRequest' = NoRequest
    /\ lastAnalyze' = "Analysis Failed"
    /\ analysisData' = NoAnalysis
    /\ UNCHANGED <<varsCI, varsWidget, varsPointer, varsLocate, varsDash, varsMap, varsSearch, varsView, indexThresholds,
                   selectedDate, showResults>>

\* fetch rejects or !response.ok: the toast, finally setIsAnalyzing(false)
IndexAnalyzeFail ==
    /\ indexRequest # NoRequest
    /\ indexIsAnalyzing' = FALSE
    /\ indexRequest' = NoRequest
    /\ lastAnalyze' = "Analysis Failed"
    /\ UNCHANGED <<varsCI, varsWidget, varsPointer, varsLocate, varsDash, varsMap, varsSearch, varsView, indexThresholds,
                   selectedDate, analysisData, showResults>>

\* 'Back to Selection': setShowResults(false), the map mounts again
IndexBackToSelection ==
    /\ showResults
    /\ showResults' = FALSE
    /\ MountMap(mapMode)
    /\ shown' = NoView
    /\ UNCHANGED <<varsCI, varsWidget, varsPointer, varsLocate, exported, tz, mapMode, selectedLocation, lastSearch,
                   indexThresholds, selectedDate, analysisData,
                   indexIsAnalyzing, indexRequest, lastAnalyze>>

\* ---- exports ----------------------------------------------------------
\* analysisData?.comfort_index || weatherData.comfortScore: undefined and 0
\* are both falsy
DashboardComfortIndex(response) ==
    IF response = NoAnalysis
    THEN weatherData.comfortScore
    ELSE NumberOr(response.comfort_index, weatherData.comfortScore)

\* the metadata handleExportJSON writes when there is no analysisData;
\* analysis_date is the time of the export
DashboardDefaultMetadata ==
    [datasets_used    |-> <<"MERRA-2", "GPM IMERG">>,
     years_analyzed   |-> "1990-2024",
     analysis_date    |-> Now,
     confidence_level |-> "85%",
     data_window      |-> "+-7 days"]

\* exportData.analysis of WeatherDashboard.handleExportJSON; arrays and
\* objects are truthy, so with analysisData the || defaults of the other
\* fields never apply
DashboardExportDocument(location, date, response) ==
    [location          |-> [latitude |-> location.lat, longitude |-> location.lng],
     event_date        |-> ISODate(date),
     comfort_index     |-> DashboardComfortIndex(response),
     probabilities     |-> IF response = NoAnalysis THEN <<>>
                           ELSE response.probabilities,
     alternative_dates |-> IF response = NoAnalysis THEN <<>>
                           ELSE response.alternative_dates,
     metadata          |-> IF response = NoAnalysis THEN DashboardDefaultMetadata
                           ELSE response.metadata]

\* 'Export JSON' on the dashboard
DashboardExportJSON ==
    /\ showResults
    /\ exported' = [by |-> "WeatherDashboard", format |-> "json",
                    content |-> DashboardExportDocument(selectedLocation,
                                                        selectedDate, analysisData)]
    /\ exported' # exported
    /\ UNCHANGED <<varsCI, varsWidget, varsPointer, varsLocate, varsMap, varsSearch, varsView, varsIndex, shown>>

\* a click on a metric card: setActiveMetric re-renders the dashboard and
\* the built-in alternative list is drawn again
DashboardRerender(rolls) ==
    /\ showResults
    /\ shown' = DashboardView(analysisData, rolls)
    /\ shown' # shown
    /\ UNCHANGED <<varsCI, varsWidget, varsPointer, varsLocate, varsMap, varsSearch, varsView, varsIndex, exported>>

\* the rows of Index.handleExportData's CSV: header, then one row per entry
IndexCsvRows(response) ==
    << <<"Condition", "Probability (%)", "Threshold", "Trend", "Confidence">> >>
    \o [i \in 1..Len(response.probabilities) |->
          << response.probabilities[i].condition,
             response.probabilities[i].probability,
             response.probabilities[i].threshold,
             response.probabilities[i].trend,
             response.probabilities[i].confidence >>]

\* const data = { location, event_date, comfort_index, probabilities,
\*                alternative_dates, metadata } of Index.handleExportData
IndexExportDocument(response) ==
    [location          |-> response.location,
     event_date        |-> response.event_date,
     comfort_index     |-> response.comfort_index,
     probabilities     |-> response.probabilities,
     alternative_dates |-> response.alternative_dates,
     metadata          |-> response.metadata]

\* Index.handleExportData(format), called from the analysis panel, which
\* Index renders in the selection view once analysisData has entries
IndexExportData(format) ==
    /\ ~showResults
    /\ analysisData # NoAnalysis
    /\ Len(analysisData.probabilities) > 0
    /\ exported' = [by |-> "Index", format |-> format,
                    content |-> IF format = "csv"
                                THEN IndexCsvRows(analysisData)
                                ELSE IndexExportDocument(analysisData)]
    /\ exported' # exported
    /\ UNCHANGED <<varsCI, varsWidget, varsPointer, varsLocate, varsMap, varsSearch, varsView, varsIndex, shown>>

(***************************************************************************)
(* CurrentWeatherWidget                                                    *)
(***************************************************************************)
\* weatherData: null
NoWeather == [null |-> TRUE]

\* the widget is not mounted
NoProps == [null |-> TRUE]

\* { latitude, longitude, locationName } as Index passes them; '' stands
\* for a location without a name
WidgetPlaces ==
    {[latitude |-> NewYork.lat, longitude |-> NewYork.lng,
      locationName |-> "New York"],
     [latitude |-> 0, longitude |-> 0, locationName |-> ""]}

\* how the Open-Meteo request of one fetch ends: with current conditions,
\* with fetch rejecting, with a status that is not ok, or with a body that
\* has no usable 'current' object (reading it throws)
FetchOutcomes == {"ok", "network", "http", "body"}

\* draws of Math.random() in getSimulatedWeather, as the temperature they
\* lead to
SimulatedDraws == {15, 25}

MaxWidgetPending == 2

\* WEATHER_API.getCurrentWeather: the try block returns the record tagged
\* 'real'; every throw inside it is caught and null is returned
getCurrentWeather(lat, lon, outcome) ==
    IF outcome = "ok"
    THEN [temperature   |-> 20,
          location_name |-> "Current Location",
          data_source   |-> "real"]
    ELSE NoWeather

\* WEATHER_API.getSimulatedWeather
getSimulatedWeather(lat, lon, draw) ==
    [temperature   |-> draw,
     location_name |-> "Simulated Location",
     data_source   |-> "simulated"]

\* the simulated record taken whatever getCurrentWeather returned
RealOrSimulatedAlwaysSimulated(data, simulated) == simulated

\* if (!data) data = WEATHER_API.getSimulatedWeather(latitude, longitude)
RealOrSimulated(data, simulated) ==
    IF data = NoWeather THEN simulated ELSE data

\* if (locationName) data.location_name = locationName
Named(data, locationName) ==
    IF locationName # "" THEN [data EXCEPT !.location_name = locationName]
    ELSE data

\* the effect on [latitude, longitude, locationName]: fetchWeather() up to
\* its await
WidgetStartFetch(props) ==
    /\ widgetLoading' = TRUE
    /\ widgetError' = FALSE
    /\ widgetPending' = widgetPending
                        (+) SetToBag({[props |-> props, live |-> TRUE]})

\* Index renders the widget once a location is selected: first render
\* (weatherData null, loading true, error null), then the effect
WidgetMount(props) ==
    /\ widgetProps = NoProps
    /\ BagCardinality(widgetPending) < MaxWidgetPending
    /\ widgetProps' = props
    /\ widgetData' = NoWeather
    /\ WidgetStartFetch(props)
    /\ UNCHANGED <<varsCI, varsPointer, varsLocate, varsMap, varsSearch, varsView, varsIndex, varsDash,
                   widgetLast>>

\* another location is selected: the props change and the effect runs
\* again; the fetch already under way is not cancelled
WidgetChangeProps(props) ==
    /\ widgetProps # NoProps
    /\ props # widgetProps
    /\ BagCardinality(widgetPending) < MaxWidgetPending
    /\ widgetProps' = props
    /\ WidgetStartFetch(props)
    /\ UNCHANGED <<varsCI, varsPointer, varsLocate, varsMap, varsSearch, varsView, varsIndex, varsDash,
                   widgetData, widgetLast>>

\* the dashboard replaces the selection view: the widget unmounts, and the
\* setters of a fetch that ends later do nothing
WidgetUnmount ==
    /\ widgetProps # NoProps
    /\ widgetProps' = NoProps
    /\ widgetData' = NoWeather
    /\ widgetLoading' = TRUE
    /\ widgetError' = FALSE
    /\ widgetPending' = Orphaned(widgetPending)
    /\ UNCHANGED <<varsCI, varsPointer, varsLocate, varsMap, varsSearch, varsView, varsIndex, varsDash,
                   widgetLast>>

\* fetchWeather() from its await on: the data is the real record or, when
\* getCurrentWeather returned null, the simulated one; setWeatherData(data),
\* finally setLoading(false).  Nothing between the await and setWeatherData
\* throws, so the catch block never runs.
WidgetFetchDone(fetch, outcome, draw) ==
    /\ fetch \in BagToSet(widgetPending)
    /\ LET real == getCurrentWeather(fetch.props.latitude,
                                     fetch.props.longitude, outcome)
           data == Named(RealOrSimulated(real,
                             getSimulatedWeather(fetch.props.latitude,
                                                 fetch.props.longitude, draw)),
                         fetch.props.locationName)
       IN  /\ widgetData' = IF fetch.live THEN data ELSE widgetData
           /\ widgetLoading' = IF fetch.live THEN FALSE ELSE widgetLoading
           /\ widgetLast' = [outcome   |-> outcome,
                             live      |-> fetch.live,
                             simulated |-> real = NoWeather]
    /\ widgetPending' = widgetPending (-) SetToBag({fetch})
    /\ UNCHANGED <<varsCI, varsPointer, varsLocate, varsMap, varsSearch, varsView, varsIndex, varsDash,
                   widgetProps, widgetError>>

(***************************************************************************)
(* Earth: the globe mesh and its pointer handlers                          *)
(***************************************************************************)
\* dragStartRef.current: null
NoPoint == [null |-> TRUE]

\* clientX, clientY of the pointer events, in px
PointerXs == {0, 5, 6, 11}
PointerYs == {0, 6}
PointerPoints == {[x |-> x, y |-> y] : x \in PointerXs, y \in PointerYs}

\* the places event.point of a click converts to
ClickPlaces == {NewYork, [lat |-> 0, lng |-> 0]}

\* most getLocationName promises pending at one time
MaxPicks == 1

\* Math.abs(a - b)
AbsDiff(a, b) == IF a < b THEN b - a ELSE a - b

\* the test of handlePointerMove with the y test left out
IsDragMoveXOnly(deltaX, deltaY) == deltaX > 5

\* if (deltaX > 5 || deltaY > 5)
IsDragMove(deltaX, deltaY) == deltaX > 5 \/ deltaY > 5

\* history: the larger of the x and y distances between two points
Distance(p, q) ==
    IF AbsDiff(p.x, q.x) > AbsDiff(p.y, q.y)
    THEN AbsDiff(p.x, q.x) ELSE AbsDiff(p.y, q.y)

\* history: no pointer-down since the last click, and what that click did
\* ("none" before the first click, "ignored", "selected")
NoGesture == [pressed |-> FALSE, click |-> "none"]

\* handlePointerDown
HandlePointerDown(p) ==
    /\ dragStart' = p
    /\ isDragging' = FALSE
    /\ gesture' = [pressed |-> TRUE, origin |-> p, farthest |-> 0]
    /\ UNCHANGED <<varsCI, varsApp, varsLocate, hovered, hoverPoint, earthPicks, lastOnClick>>

\* handlePointerMove: the drag test, then the hover point (isDragging is
\* the value of the render the handler belongs to)
HandlePointerMove(p) ==
    /\ isDragging' = IF /\ dragStart # NoPoint
                        /\ IsDragMove(AbsDiff(p.x, dragStart.x),
                                      AbsDiff(p.y, dragStart.y))
                     THEN TRUE ELSE isDragging
    /\ hoverPoint' = IF ~isDragging THEN p ELSE hoverPoint
    /\ gesture' = IF gesture.pressed /\ Distance(p, gesture.origin) > gesture.farthest
                  THEN [gesture EXCEPT !.farthest = Distance(p, gesture.origin)]
                  ELSE gesture
    /\ UNCHANGED <<varsCI, varsApp, varsLocate, dragStart, hovered, earthPicks, lastOnClick>>

\* onPointerOver={() => setHovered(true)}
HandlePointerOver ==
    /\ hovered' = TRUE
    /\ UNCHANGED <<varsCI, varsApp, varsLocate, dragStart, isDragging, hoverPoint,
                   earthPicks, lastOnClick, gesture>>

\* handlePointerOut
HandlePointerOut ==
    /\ hovered' = FALSE
    /\ hoverPoint' = NoPoint
    /\ UNCHANGED <<varsCI, varsApp, varsLocate, dragStart, isDragging, earthPicks,
                   lastOnClick, gesture>>

\* handleClick: after a drag it only resets the drag state; otherwise it
\* converts event.point and starts getLocationName(...).then(onClick)
HandleClick(place) ==
    /\ isDragging \/ BagCardinality(earthPicks) < MaxPicks
    /\ IF isDragging
       THEN /\ isDragging' = FALSE
            /\ dragStart' = NoPoint
            /\ UNCHANGED earthPicks
       ELSE /\ earthPicks' = earthPicks (+) SetToBag({place})
            /\ dragStart' = NoPoint
            /\ UNCHANGED isDragging
    /\ gesture' = [pressed |-> FALSE,
                    click   |-> IF isDragging THEN "ignored" ELSE "selected"]
    /\ UNCHANGED <<varsCI, varsApp, varsLocate, hovered, hoverPoint, lastOnClick>>

\* reverseGeocode settles (with a name or with null, it never rejects):
\* onClick(clampedLat, clampedLng, locationName)
EarthPickDone(place) ==
    /\ BagIn(place, earthPicks)
    /\ earthPicks' = earthPicks (-) SetToBag({place})
    /\ lastOnClick' = place
    /\ UNCHANGED <<varsCI, varsApp, varsLocate, dragStart, isDragging, hovered, hoverPoint,
                   gesture>>

\* Earth just mounted
InitPointer ==
    /\ dragStart = NoPoint
    /\ isDragging = FALSE
    /\ hovered = FALSE
    /\ hoverPoint = NoPoint
    /\ earthPicks = EmptyBag
    /\ lastOnClick = NoLocation
    /\ gesture = NoGesture

(***************************************************************************)
(* getCurrentLocation (Map2D and Earth3DGlobe)                             *)
(***************************************************************************)
\* positions the Geolocation API reports
GpsPositions == {[lat |-> 0 - 90 * Unit, lng |-> 0]}

\* what GEOCODING_API.reverseGeocode resolves with: a name, or null (it
\* catches every failure).  Names are sequences of pieces of text.
NoName == <<>>
ReverseNames == {<<"New York, United States">>, NoName}

\* what GEOCODING_API.getLocationByIP resolves with: a place, or null
NoIpLocation == [null |-> TRUE]
IpAnswers ==
    {[lat |-> NewYork.lat, lng |-> NewYork.lng,
      name |-> <<"New York, New York, United States">>],
     NoIpLocation}

\* the name left as getLocationByIP gave it
ApproximateUnmarked(name) == name

\* `${ipLocation.name} (Approximate)`
Approximate(name) == name \o <<" (Approximate)">>

\* onLocationSelect(lat, lng, name) from getCurrentLocation: Index sets
\* selectedLocation and the effect of the mounted map on it runs (in Map2D
\* it sets the centre and zoom 10 after the handler's own setCenter and
\* setZoom)
Located(place) ==
    /\ Pending < MaxInFlight
    /\ selectedLocation' = place
    /\ IF mapMode = "3d"
       THEN /\ GlobeAnalysisEffect(place, eventDate)
            /\ UNCHANGED <<isAnalyzing, center, zoom>>
       ELSE /\ Map2DLocationEffect(place)
            /\ UNCHANGED showAnalysis

\* what a getCurrentLocation step leaves alone when it selects a place
LocateFrame ==
    UNCHANGED <<varsCI, varsWidget, varsPointer, varsDash, varsIndex,
                varsSearch, tz, mapMode, eventDate, weatherProbabilities,
                lastResult>>

\* what it leaves alone when it selects nothing
LocateIdle ==
    UNCHANGED <<varsCI, varsWidget, varsPointer, varsDash, varsIndex,
                varsSearch, varsMap, varsView>>

\* the 'My Location' button, disabled={isGettingLocation}:
\* setIsGettingLocation(true); without navigator.geolocation the alert and
\* setIsGettingLocation(false); else getCurrentPosition(success, error)
GetCurrentLocation(supported) ==
    /\ ~showResults
    /\ ~isGettingLocation
    /\ locating = EmptyBag
    /\ IF supported
       THEN /\ isGettingLocation' = TRUE
            /\ locating' = SetToBag({[stage |-> "gps", gps |-> "pending"]})
            /\ UNCHANGED lastLocate
       ELSE /\ isGettingLocation' = FALSE
            /\ UNCHANGED locating
            /\ lastLocate' = [path |-> "unsupported", gps |-> "untried",
                              name |-> NoName]
    /\ UNCHANGED currentLocation
    /\ LocateIdle

\* the success callback up to its await: setCurrentLocation, reverseGeocode
GpsSuccess(run, position) ==
    /\ BagIn(run, locating) /\ run.stage = "gps"
    /\ currentLocation' = position
    /\ locating' = SetToBag({[stage |-> "reverse", gps |-> "ok",
                              coords |-> position]})
    /\ UNCHANGED <<isGettingLocation, lastLocate>>
    /\ LocateIdle

\* the success callback after its await: onLocationSelect with the name
\* found or 'Current Location', setIsGettingLocation(false)
GpsLocated(run, found) ==
    /\ BagIn(run, locating) /\ run.stage = "reverse"
    /\ Located(run.coords)
    /\ isGettingLocation' = FALSE
    /\ locating' = EmptyBag
    /\ lastLocate' = [path |-> "gps", gps |-> run.gps,
                      name |-> IF found = NoName THEN <<"Current Location">>
                               ELSE found]
    /\ UNCHANGED currentLocation
    /\ LocateFrame

\* the error callback up to its await: getLocationByIP
GpsError(run) ==
    /\ BagIn(run, locating) /\ run.stage = "gps"
    /\ locating' = SetToBag({[stage |-> "ip", gps |-> "error"]})
    /\ UNCHANGED <<isGettingLocation, currentLocation, lastLocate>>
    /\ LocateIdle

\* the error callback after its await, getLocationByIP having found a
\* place: setCurrentLocation, onLocationSelect with the marked name,
\* setIsGettingLocation(false), the alert
IpLocated(run, ipLocation) ==
    /\ BagIn(run, locating) /\ run.stage = "ip"
    /\ ipLocation # NoIpLocation
    /\ currentLocation' = [lat |-> ipLocation.lat, lng |-> ipLocation.lng]
    /\ Located([lat |-> ipLocation.lat, lng |-> ipLocation.lng])
    /\ isGettingLocation' = FALSE
    /\ locating' = EmptyBag
    /\ lastLocate' = [path |-> "ip", gps |-> run.gps,
                      name |-> Approximate(ipLocation.name)]
    /\ LocateFrame

\* the error callback after its await, getLocationByIP having resolved
\* with null: setIsGettingLocation(false), the alert
LocateFailed(run) ==
    /\ BagIn(run, locating) /\ run.stage = "ip"
    /\ isGettingLocation' = FALSE
    /\ locating' = EmptyBag
    /\ lastLocate' = [path |-> "failed", gps |-> run.gps, name |-> NoName]
    /\ UNCHANGED currentLocation
    /\ LocateIdle

\* a map component just mounted
InitLocate ==
    /\ isGettingLocation = FALSE
    /\ currentLocation = NoLocation
    /\ locating = EmptyBag
    /\ lastLocate = [path |-> "none", gps |-> "untried", name |-> NoName]

(***************************************************************************)
(* Specifications                                                          *)
(***************************************************************************)
\* calculateComfortIndex([])
InitCI ==
    /\ ciProbabilities = <<>>
    /\ ciResult = calculateComfortIndex(<<>>)

\* Index before anything is selected
InitIndex ==
    /\ selectedLocation = NoLocation
    /\ indexThresholds = NoThresholds
    /\ selectedDate = Now
    /\ analysisData = NoAnalysis
    /\ showResults = FALSE
    /\ indexIsAnalyzing = FALSE
    /\ indexRequest = NoRequest
    /\ lastAnalyze = "none"
    /\ exported = NoExport
    /\ shown = NoView

\* a map component mounted with no location selected
InitMap ==
    /\ eventDate = Now
    /\ weatherProbabilities = <<>>
    /\ showAnalysis = FALSE
    /\ isAnalyzing = FALSE
    /\ inFlight = EmptyBag
    /\ lastResult = NoResult
    /\ searchQuery = BlankQuery
    /\ isSearching = FALSE
    /\ center = InitialCenter
    /\ zoom = 2
    /\ geoPending = EmptyBag
    /\ lastSearch = "none"

\* no CurrentWeatherWidget is mounted
InitWidget ==
    /\ widgetProps = NoProps
    /\ widgetData = NoWeather
    /\ widgetLoading = TRUE
    /\ widgetError = FALSE
    /\ widgetPending = EmptyBag
    /\ widgetLast = [outcome |-> "none"]

\* Index starts with mapMode '3d' and no location; Earth3DGlobe mounts and
\* its analysis effect runs setShowAnalysis(false)
InitApp ==
    /\ mapMode = "3d"
    /\ InitIndex
    /\ InitMap
    /\ InitWidget
    /\ InitPointer
    /\ InitLocate

Init ==
    /\ InitCI
    /\ tz \in TimeZones
    /\ InitApp

Next ==
    \/ \E l \in Locations : GlobeSelectLocation(l)
    \/ \E d \in InputDates : GlobeChangeDate(d)
    \/ \E call \in BagToSet(inFlight) :
          \E data \in BackendAnalyze(RequestBody(call)) : GlobeAnalyzeOk(call, data)
    \/ \E call \in BagToSet(inFlight) : GlobeAnalyzeFail(call)
    \/ \E l \in Locations : Map2DSelectLocation(l)
    \/ \E d \in InputDates : Map2DChangeDate(d)
    \/ Map2DCheckMyDay
    \/ \E call \in BagToSet(inFlight) :
          \E data \in BackendAnalyze(RequestBody(call)) : Map2DAnalyzeOk(call, data)
    \/ \E call \in BagToSet(inFlight) : Map2DAnalyzeFail(call)
    \/ \E m \in {"3d", "2d"} : SetMapMode(m)

Spec == Init /\ [][Next]_vars

\* calculateComfortIndex alone, on every list of at most MaxLen entries
InitComfort ==
    /\ InitCI
    /\ tz = 0
    /\ InitApp

NextComfort ==
    \/ \E c \in CIConditions : CIAppend(c)
    \/ \E i \in 1..MaxLen : \E p \in CIProbValues : CIRaiseProbability(i, p)

SpecComfort == InitComfort /\ [][NextComfort]_vars

\* the search box of the mounted map component
NextSearch ==
    \/ \E q \in SearchQueries \cup {BlankQuery} : TypeQuery(q)
    \/ HandleSearch
    \/ \E call \in BagToSet(geoPending) : ReverseGeocodeDone(call)
    \/ \E call \in BagToSet(geoPending) :
          \E result \in GeocodeAnswers(call) : GeocodeDone(call, result)
    \/ \E call \in BagToSet(inFlight) : GlobeAnalyzeFail(call)
    \/ \E call \in BagToSet(inFlight) : Map2DAnalyzeFail(call)
    \/ \E chosen \in ThresholdChoices : IndexSetThresholds(chosen)
    \/ HandleAnalyze
    \/ IndexAnalyzeFail

\* either map component, just mounted (Map2D: after the toggle was used
\* once with no location selected)
InitSearch ==
    /\ InitCI
    /\ tz = 0
    /\ InitIndex
    /\ mapMode \in {"3d", "2d"}
    /\ InitMap
    /\ InitWidget
    /\ InitPointer
    /\ InitLocate

SpecSearch == InitSearch /\ [][NextSearch]_vars

\* Index's own analysis, the dashboard and the exports, with the globe
\* mounted in the selection view
NextIndex ==
    \/ \E l \in {NewYork} : GlobePickPlace(l)
    \/ \E call \in BagToSet(inFlight) : GlobeAnalyzeFail(call)
    \/ \E chosen \in ThresholdChoices : IndexSetThresholds(chosen)
    \/ \E day \in CalendarDays : IndexSelectDate(LocalMidnight(day[1], day[2]))
    \/ IndexSelectDate(Now)
    \/ HandleAnalyze
    \/ \E data \in IndexAnswers : IndexAnalyzeOk(data)
    \/ IndexAnalyzeFail
    \/ IndexBackToSelection
    \/ DashboardExportJSON
    \/ \E format \in {"csv", "json"} : IndexExportData(format)

SpecIndex == Init /\ [][NextIndex]_vars

\* WeatherDashboard mounted by a parent that passes location and date and
\* no analysisData (the prop is optional); 'Back to Selection' leads from
\* there into Index's selection view.  Index itself mounts the dashboard
\* only after setAnalysisData(data).
InitDashboard ==
    /\ InitCI
    /\ tz = 0
    /\ mapMode = "3d"
    /\ InitMap
    /\ InitWidget
    /\ InitPointer
    /\ InitLocate
    /\ selectedLocation = NewYork
    /\ indexThresholds = NoThresholds
    /\ selectedDate = Now
    /\ analysisData = NoAnalysis
    /\ showResults = TRUE
    /\ indexIsAnalyzing = FALSE
    /\ indexRequest = NoRequest
    /\ lastAnalyze = "none"
    /\ exported = NoExport
    /\ \E rolls \in Rolls : shown = DashboardView(NoAnalysis, rolls)

NextDashboard ==
    \/ \E rolls \in Rolls : DashboardRerender(rolls)
    \/ DashboardExportJSON
    \/ IndexBackToSelection
    \/ \E l \in {NewYork} : GlobePickPlace(l)
    \/ \E call \in BagToSet(inFlight) : GlobeAnalyzeFail(call)
    \/ \E chosen \in ThresholdChoices : IndexSetThresholds(chosen)
    \/ HandleAnalyze
    \/ \E data \in IndexAnswers : IndexAnalyzeOk(data)
    \/ IndexAnalyzeFail

SpecDashboard == InitDashboard /\ [][NextDashboard]_vars

\* CurrentWeatherWidget alone, mounted, given other props and unmounted
\* by its parent while Open-Meteo answers its fetches in any order
NextWidget ==
    \/ \E props \in WidgetPlaces : WidgetMount(props)
    \/ \E props \in WidgetPlaces : WidgetChangeProps(props)
    \/ WidgetUnmount
    \/ \E fetch \in BagToSet(widgetPending) :
          \E outcome \in FetchOutcomes : \E draw \in SimulatedDraws :
              WidgetFetchDone(fetch, outcome, draw)

SpecWidget == InitComfort /\ [][NextWidget]_vars

\* ---- the date inputs of the map components, cleared ------------------
\* new Date('') : Invalid Date
InvalidDate == [invalid |-> TRUE]

\* !isNaN(date.getTime())
ValidDate(date) == date # InvalidDate

\* e.target.value of a date input: '' once it is cleared, else 'yyyy-mm-dd'
EmptyValue == [text |-> ""]

\* new Date(e.target.value)
NewDate(value) ==
    IF value = EmptyValue THEN InvalidDate ELSE DateInput(value.month, value.dom)

\* Map2D: onChange={(e) => setEventDate(new Date(e.target.value))} with the
\* input cleared.  The next render evaluates eventDate.toISOString() for
\* the input's value, which throws RangeError on an Invalid Date: the
\* render fails before any effect runs.
Map2DClearDate ==
    /\ ~showResults
    /\ mapMode = "2d"
    /\ eventDate' = NewDate(EmptyValue)
    /\ UNCHANGED <<varsElse, varsView, tz, mapMode, selectedLocation,
                   weatherProbabilities, showAnalysis, isAnalyzing, inFlight,
                   lastResult>>

\* Earth3DGlobe: onChange tests !isNaN(newDate.getTime()) before
\* setEventDate, so clearing the input sets nothing
GlobeClearDate ==
    /\ ~showResults
    /\ mapMode = "3d"
    /\ IF ValidDate(NewDate(EmptyValue))
       THEN /\ eventDate' = NewDate(EmptyValue)
            /\ GlobeAnalysisEffect(selectedLocation, eventDate')
       ELSE UNCHANGED <<eventDate, inFlight, showAnalysis>>
    /\ UNCHANGED <<varsElse, varsView, tz, mapMode, selectedLocation,
                   weatherProbabilities, isAnalyzing, lastResult>>

\* the map components with their date inputs set and cleared; a component
\* whose render has thrown takes no further step.  Index passes no
\* selectedEventDate prop, so the globe's effect on it never sets a date.
NextDateInput ==
    \/ ValidDate(eventDate) /\ \E l \in {NewYork} : GlobeSelectLocation(l)
    \/ ValidDate(eventDate) /\ \E d \in InputDates : GlobeChangeDate(d)
    \/ ValidDate(eventDate) /\ GlobeClearDate
    \/ ValidDate(eventDate) /\ \E call \in BagToSet(inFlight) : GlobeAnalyzeFail(call)
    \/ ValidDate(eventDate) /\ \E l \in {NewYork} : Map2DSelectLocation(l)
    \/ ValidDate(eventDate) /\ \E d \in InputDates : Map2DChangeDate(d)
    \/ ValidDate(eventDate) /\ Map2DClearDate
    \/ ValidDate(eventDate) /\ Map2DCheckMyDay
    \/ ValidDate(eventDate) /\ \E call \in BagToSet(inFlight) :
          \E data \in BackendAnalyze(RequestBody(call)) : Map2DAnalyzeOk(call, data)
    \/ ValidDate(eventDate) /\ \E call \in BagToSet(inFlight) : Map2DAnalyzeFail(call)
    \/ ValidDate(eventDate) /\ \E m \in {"3d", "2d"} : SetMapMode(m)

SpecDateInput == InitComfort /\ [][NextDateInput]_vars

\* the globe mesh under any sequence of pointer events, its reverse
\* geocoding calls settling at any time
NextPointer ==
    \/ \E p \in PointerPoints : HandlePointerDown(p)
    \/ \E p \in PointerPoints : HandlePointerMove(p)
    \/ HandlePointerOver
    \/ HandlePointerOut
    \/ \E place \in ClickPlaces : HandleClick(place)
    \/ \E place \in BagToSet(earthPicks) : EarthPickDone(place)

SpecPointer == InitComfort /\ [][NextPointer]_vars

\* the 'My Location' button of either map component, the Geolocation API
\* and the two lookup services answering in any way
NextLocate ==
    \/ \E supported \in BOOLEAN : GetCurrentLocation(supported)
    \/ \E run \in BagToSet(locating) : \E position \in GpsPositions :
          GpsSuccess(run, position)
    \/ \E run \in BagToSet(locating) : \E found \in ReverseNames :
          GpsLocated(run, found)
    \/ \E run \in BagToSet(locating) : GpsError(run)
    \/ \E run \in BagToSet(locating) : \E ipLocation \in IpAnswers :
          IpLocated(run, ipLocation)
    \/ \E run \in BagToSet(locating) : LocateFailed(run)
    \/ \E call \in BagToSet(inFlight) :
          \E data \in BackendAnalyze(RequestBody(call)) : GlobeAnalyzeOk(call, data)
    \/ \E call \in BagToSet(inFlight) : GlobeAnalyzeFail(call)
    \/ \E call \in BagToSet(inFlight) : Map2DAnalyzeFail(call)

SpecLocate == InitSearch /\ [][NextLocate]_vars

\* The client while the backend stays silent: no /analyze request is ever
\* answered or refused.  The code has no timer, so the only steps are the
\* user's; the client is taken to go on making them for as long as it can.
NextSilent ==
    \/ \E l \in {NewYork} : GlobePickPlace(l)
    \/ \E m \in {"3d", "2d"} : SetMapMode(m)
    \/ \E d \in InputDates : Map2DChangeDate(d)
    \/ \E chosen \in ThresholdChoices : IndexSetThresholds(chosen)
    \/ \E day \in CalendarDays : IndexSelectDate(LocalMidnight(day[1], day[2]))
    \/ IndexSelectDate(Now)
    \/ HandleAnalyze

SpecSilent == Init /\ [][NextSilent]_vars /\ WF_vars(NextSilent)

(***************************************************************************)
(* Properties of calculateComfortIndex (checked under SpecComfort)         *)
(***************************************************************************)
ConditionsOf(probabilities) ==
    {probabilities[i].condition : i \in 1..Len(probabilities)}

\* the sum of the weights the forEach loop applies to a list, in 1/100
RECURSIVE AppliedWeights(_, _)
AppliedWeights(probabilities, k) ==
    IF k = 0 THEN 0
    ELSE AppliedWeights(probabilities, k - 1) + WeightOf(probabilities[k].condition)

C2_Monotone ==
    [][ ( /\ Len(ciProbabilities') = Len(ciProbabilities)
          /\ \E i \in 1..Len(ciProbabilities) :
                /\ \A j \in 1..Len(ciProbabilities) :
                      j # i => ciProbabilities'[j] = ciProbabilities[j]
                /\ ciProbabilities'[i].condition = ciProbabilities[i].condition
                /\ ciProbabilities'[i].probability >= ciProbabilities[i].probability )
        => ciResult' <= ciResult ]_vars

\* a probability has been raised (entries start at 0) and the index fell
C2_Witness ==
    /\ \E i \in 1..Len(ciProbabilities) : ciProbabilities[i].probability = Pct(100)
    /\ ciResult < 100

OutOfRangeQuery(query) ==
    LET coords == parseCoordinates(query)
    IN  /\ coords # NoCoordinates
        /\ \/ coords.lat < 0 - 90 * Unit \/ coords.lat > 90 * Unit
           \/ coords.lng < 0 - 180 * Unit \/ coords.lng > 180 * Unit

\* C11: a run of handleSearch (Map2D or Earth3DGlobe) on a coordinate query
\* with latitude outside [-90, 90] or longitude outside [-180, 180] makes no
\* geocoding or reverse-geocoding call, does not invoke onLocationSelect and
\* leaves center, zoom and searchQuery unchanged; a run of handleAnalyze
\* with the location or the thresholds missing sends no request and does
\* not set isAnalyzing.
C11_RejectedBeforeWork ==
    [][ /\ (HandleSearch /\ OutOfRangeQuery(searchQuery))
           => /\ geoPending' = geoPending
              /\ selectedLocation' = selectedLocation
              /\ inFlight' = inFlight
              /\ center' = center /\ zoom' = zoom
              /\ searchQuery' = searchQuery
        /\ ( /\ HandleAnalyze
             /\ selectedLocation = NoLocation \/ indexThresholds = NoThresholds )
           => /\ indexRequest' = NoRequest
              /\ ~indexIsAnalyzing' ]_vars

\* Map2D has rejected a longitude of 180.0002 while showing a place found
\* by an earlier search, and handleAnalyze has reported missing thresholds
C11_Witness ==
    /\ mapMode = "2d"
    /\ lastSearch = "rejected"
    /\ searchQuery = DegreesQuery(0, "N", 180 * Unit + 2, "W")
    /\ selectedLocation # NoLocation
    /\ zoom = 10
    /\ lastAnalyze = "Missing Information"
    /\ indexThresholds = NoThresholds

(***************************************************************************)
(* Properties of Index's analysis, the dashboard and the exports           *)
(* (checked under SpecIndex)                                               *)
(***************************************************************************)
\* C12: every JSON export, by WeatherDashboard.handleExportJSON and by
\* Index.handleExportData, carries the event_date, comfort_index,
\* probabilities, alternative_dates and metadata of the response held in
\* analysisData, unchanged.
C12_ExportVerbatim ==
    [][ (exported' # exported /\ exported'.format = "json")
        => /\ exported'.content.event_date = analysisData.event_date
           /\ exported'.content.comfort_index = analysisData.comfort_index
           /\ exported'.content.probabilities = analysisData.probabilities
           /\ exported'.content.alternative_dates = analysisData.alternative_dates
           /\ exported'.content.metadata = analysisData.metadata ]_vars

\* C13 (checked under SpecSilent): an analysis request the backend never
\* answers is given up after a deadline, so that neither Index's isAnalyzing
\* nor Map2D's stays true for ever.
C13_AnalysisTerminates ==
    /\ []<>(~indexIsAnalyzing)
    /\ []<>(~isAnalyzing)

(***************************************************************************)
(* Properties of the map components (checked under Spec)                   *)
(***************************************************************************)
EntriesInRange(probabilities) ==
    \A i \in 1..Len(probabilities) :
        /\ 0 <= probabilities[i].probability
        /\ probabilities[i].probability <= Pct(100)
        /\ "confidence" \in DOMAIN probabilities[i]
              => /\ 0 <= probabilities[i].confidence
                 /\ probabilities[i].confidence <= 100

\* the local calculation at every whole and half degree of latitude from
\* -90 to 90, and at New York, in every month
LocalSweepInRange ==
    \A halfDegrees \in (0 - 180)..180, month \in 0..11 :
        /\ EntriesInRange(calculateWeatherProbabilitiesLocalAt(
                              halfDegrees * (Unit \div 2), month))
        /\ EntriesInRange(calculateWeatherProbabilitiesLocalAt(NewYork.lat, month))

\* C4: in every reachable state of Map2D and Earth3DGlobe each entry of
\* weatherProbabilities has 0 <= probability <= 100 and 0 <= confidence <= 1,
\* whether it came from the backend's answer or from the local calculation.
C4_ProbabilityRanges ==
    /\ EntriesInRange(weatherProbabilities)
    /\ LocalSweepInRange

\* the globe shows the local calculation for a pole, where the cap of 90
\* on 'Very Cold' is what keeps the entry in range
C4_Witness ==
    /\ mapMode = "3d"
    /\ lastResult.outcome = "fallback"
    /\ Len(weatherProbabilities) = 4
    /\ weatherProbabilities[2].condition = "Very Cold"
    /\ weatherProbabilities[2].probability = Pct(90)

\* C5: for New York, 2025-07-04 and the default thresholds the result of
\* Earth3DGlobe's analyzeWeatherRisk has exactly the four entries Very Hot,
\* Very Cold, Heavy Rain, Strong Wind, each within [0, 100], and its
\* comfortIndex is the weighted formula applied to them, on every path.
C5_EndToEnd ==
    ( /\ mapMode = "3d"
      /\ lastResult.outcome \in {"backend", "fallback"}
      /\ lastResult.call.location = NewYork
      /\ ISODate(lastResult.call.date) = <<2025, 7, 4>>
      /\ lastResult.call.thresholds = weatherThresholds )
    => LET r == lastResult.value
       IN  /\ Len(r.probabilities) = 4
           /\ r.probabilities[1].condition = "Very Hot"
           /\ r.probabilities[2].condition = "Very Cold"
           /\ r.probabilities[3].condition = "Heavy Rain"
           /\ r.probabilities[4].condition = "Strong Wind"
           /\ \A i \in 1..4 : /\ 0 <= r.probabilities[i].probability
                              /\ r.probabilities[i].probability <= Pct(100)
           /\ r.comfortIndex = aggregate(r.probabilities)

\* C6: there is never a state with two identical /analyze requests in flight.
C6_SingleFlight ==
    \A c1, c2 \in BagToSet(inFlight) :
        /\ CopiesIn(c1, inFlight) <= 1
        /\ RequestBody(c1) = RequestBody(c2) => c1 = c2

\* C7: an analysis whose backend call failed ends with a probability result
\* on display.
C7_NoBareError ==
    lastResult.outcome \in {"fallback", "error"}
        => showAnalysis /\ Len(weatherProbabilities) > 0

\* the confidence WeatherDashboard reports with its MERRA-2 / GPM IMERG
\* attributed entries, in 1/100
ReportedConfidence ==
    [c \in {"Very Hot", "Heavy Rain", "Strong Wind", "High Humidity"} |->
        CASE c = "Very Hot"      -> 85
          [] c = "Heavy Rain"    -> 72
          [] c = "Strong Wind"   -> 65
          [] c = "High Humidity" -> 78]

\* C8: when the network call of the globe's analyzeWeatherRisk fails, the
\* result names the fallback in metadata.datasets_used and every entry's
\* confidence is lower than the one reported for non-fallback data.
C8_FallbackDegraded ==
    (mapMode = "3d" /\ lastResult.outcome = "fallback")
    => LET r == lastResult.value
       IN  /\ r.metadata.datasets_used = <<"Fallback simulation">>
           /\ \A i \in 1..Len(r.probabilities) :
                 r.probabilities[i].condition \in DOMAIN ReportedConfidence
                 => r.probabilities[i].confidence
                        < ReportedConfidence[r.probabilities[i].condition]

C10_FallbackStable ==
    lastResult.outcome = "fallback"
        => \A i \in 1..Len(lastResult.value.probabilities) :
              lastResult.value.probabilities[i].trend = "stable"

(***************************************************************************)
(* Properties of WeatherDashboard's display (SpecIndex, SpecDashboard)     *)
(***************************************************************************)
Abs(n) == IF n < 0 THEN 0 - n ELSE n

\* a list of alternatives is in the contract's order: comfort_index
\* descending, equal comfort_index by smaller |offset_days| first
OrderedAlternatives(alternatives) ==
    \A i \in 1..Len(alternatives) : \A j \in 1..Len(alternatives) :
        i < j =>
            \/ alternatives[i].comfort_index > alternatives[j].comfort_index
            \/ /\ alternatives[i].comfort_index = alternatives[j].comfort_index
               /\ Abs(alternatives[i].offset_days) <= Abs(alternatives[j].offset_days)

\* C14: the alternative dates WeatherDashboard presents are ordered by
\* comfort_index descending, ties by smaller absolute offset_days, whether
\* the list is the response's alternative_dates or the built-in one.
C14_AlternativesOrdered ==
    shown.mounted => OrderedAlternatives(shown.alternatives)

\* C14, the response's list alone
C14_ResponseListOrdered ==
    (shown.mounted /\ analysisData # NoAnalysis)
        => OrderedAlternatives(shown.alternatives)


\* C15: every alternative date shown with recommendation 'Better' has a
\* comfort_index above the comfort score shown for the event date, the
\* alternatives of the built-in list included.
C15_BetterExceedsShownScore ==
    shown.mounted =>
        \A i \in 1..Len(shown.alternatives) :
            shown.alternatives[i].recommendation = "Better"
                => shown.alternatives[i].comfort_index > shown.comfortScore


(***************************************************************************)
(* Properties of CurrentWeatherWidget (checked under SpecWidget)           *)
(***************************************************************************)
\* a fetchWeather() run of the mounted widget ends in this step
WidgetFetchEnds ==
    /\ \E fetch \in BagToSet(widgetPending) :
          \E outcome \in FetchOutcomes : \E draw \in SimulatedDraws :
              WidgetFetchDone(fetch, outcome, draw)
    /\ widgetLast'.live

\* C16: every completed fetch leaves weatherData non-null, tagged 'real'
\* exactly when the Open-Meteo call of that fetch succeeded and 'simulated'
\* exactly when it failed, and getSimulatedWeather is not used for a fetch
\* whose real call succeeded.
C16_SourceMatchesOutcome ==
    [][ WidgetFetchEnds =>
          /\ widgetData' # NoWeather
          /\ widgetData'.data_source = "real" <=> widgetLast'.outcome = "ok"
          /\ widgetData'.data_source = "simulated" <=> widgetLast'.outcome # "ok"
          /\ widgetLast'.outcome = "ok" => ~widgetLast'.simulated ]_vars

\* a fetch that succeeded has ended and its record is shown under the
\* location's name, while another fetch is still awaited
C16_Witness ==
    /\ widgetLast.outcome = "ok" /\ widgetLast.live
    /\ widgetData # NoWeather /\ widgetData.data_source = "real"
    /\ widgetData.location_name = "New York"
    /\ widgetLoading = FALSE
    /\ BagCardinality(widgetPending) = 1

\* a failed fetch has ended and the simulated record is shown
C16_WitnessSimulated ==
    /\ widgetLast.outcome = "http" /\ widgetLast.live
    /\ widgetData # NoWeather /\ widgetData.data_source = "simulated"
    /\ widgetData.location_name = "Simulated Location"


\* C18: given analysisData, the comfort score the dashboard displays is
\* analysisData.comfort_index and the probability on its gauges are those
\* of analysisData.probabilities, not built-in values.
C18_DashboardShowsResponse ==
    (shown.mounted /\ analysisData # NoAnalysis) =>
        /\ shown.comfortScore = analysisData.comfort_index
        /\ \A i \in 1..Len(analysisData.probabilities) :
              \E key \in DOMAIN shown.gauges :
                  Pct(shown.gauges[key]) = analysisData.probabilities[i].probability

(***************************************************************************)
(* Properties of the /analyze request (checked under SpecIndex)            *)
(***************************************************************************)
\* C17: the event_date sent in an /analyze request is the ISO date of the
\* day the user selected in their local calendar, in every time zone and
\* for every time of day of the Date value.  Stated for the request of
\* Index.handleAnalyze, whose selectedDate comes from the calendar (local
\* midnight of the day clicked) or from new Date().
C17_EventDateIsLocalDay ==
    [][ (HandleAnalyze /\ indexRequest' # NoRequest)
            => indexRequest'.event_date = LocalDate(selectedDate) ]_vars

\* C17 for the day clicked in the calendar alone
C17_CalendarDayIsSent ==
    [][ (HandleAnalyze /\ indexRequest' # NoRequest /\ selectedDate # Now)
            => indexRequest'.event_date = LocalDate(selectedDate) ]_vars

\* C17 for the requests of the map components: the date input shows and
\* sets the UTC date, so what it shows is what is sent
C17_MapInputDateIsSent ==
    \A call \in BagToSet(inFlight) :
        call.date \in InputDates
            => \E day \in {<<7, 4>>, <<12, 1>>} :
                  /\ call.date = DateInput(day[1], day[2])
                  /\ RequestBody(call).event_date = <<2025, day[1], day[2]>>


(***************************************************************************)
(* Properties of overlapping analyses (checked under Spec)                 *)
(***************************************************************************)
\* C19: once every analysis request in flight has completed, the result a
\* map component holds and shows is the one for the location and date
\* selected last, in whatever order the responses arrived.
C19_LatestSelectionWins ==
    (/\ Pending = 0
     /\ showAnalysis
     /\ lastResult.outcome \in {"backend", "fallback"})
        => lastResult.call = Call(selectedLocation, eventDate)


\* C20: in Map2D isAnalyzing is true in every state in which at least one
\* analysis request is in flight, overlapping requests included.
C20_AnalyzingWhileInFlight ==
    (mapMode = "2d" /\ Pending > 0) => isAnalyzing


(***************************************************************************)
(* Properties of Index's analysis (checked under SpecIndex)                *)
(***************************************************************************)
\* C21: Index.isAnalyzing is true exactly while a handleAnalyze request is
\* in flight: set before the fetch, false again after a response and after
\* a failure, and no handleAnalyze request starts while it is true.
C21_AnalyzingExactlyWhileInFlight ==
    /\ [](indexIsAnalyzing <=> indexRequest # NoRequest)
    /\ [][ (indexRequest' # indexRequest /\ indexRequest' # NoRequest)
              => (~indexIsAnalyzing /\ indexRequest = NoRequest) ]_vars

\* a second analysis is under way after the first one was answered and the
\* user went back to the selection view
C21_Witness ==
    /\ indexIsAnalyzing /\ indexRequest # NoRequest
    /\ lastAnalyze = "sent"
    /\ analysisData # NoAnalysis
    /\ ~showResults


\* C22: when Index turns to the results view, the location and the date it
\* passes to WeatherDashboard (selectedLocation, selectedDate) are those of
\* the request that produced analysisData, also when the user changed them
\* while the request was in flight.
C22_DashboardPropsOfRequest ==
    [][ (showResults' /\ ~showResults) =>
          /\ indexRequest.latitude = selectedLocation'.lat
          /\ indexRequest.longitude = selectedLocation'.lng
          /\ indexRequest.event_date = ISODate(selectedDate') ]_vars


\* C23: in Index showResults implies that analysisData and selectedLocation
\* are not null, in every reachable state, the backend answering with a
\* JSON object.
C23_ResultsHaveDataAndLocation ==
    showResults => (analysisData # NoAnalysis /\ selectedLocation # NoLocation)

\* the results view is shown for the first analysis
C23_Witness ==
    /\ showResults
    /\ lastAnalyze = "Analysis Complete!"
    /\ analysisData # NoAnalysis
    /\ selectedLocation = NewYork
    /\ shown.mounted


\* the pending request of handleAnalyze ends in this step with the
\* 'Analysis Failed' toast
AnalyzeRequestFails ==
    /\ indexRequest # NoRequest
    /\ indexRequest' = NoRequest
    /\ lastAnalyze' = "Analysis Failed"

\* C24: a failed handleAnalyze leaves analysisData, showResults,
\* selectedLocation, selectedDate and thresholds as they were; isAnalyzing
\* goes back to false and the 'Analysis Failed' toast is raised.
C24_FailureChangesNothingElse ==
    [][ AnalyzeRequestFails =>
          /\ analysisData' = analysisData
          /\ showResults' = showResults
          /\ selectedLocation' = selectedLocation
          /\ selectedDate' = selectedDate
          /\ indexThresholds' = indexThresholds
          /\ indexIsAnalyzing /\ ~indexIsAnalyzing' ]_vars

\* a second analysis has failed and the analysis obtained before is still
\* held
C24_Witness ==
    /\ lastAnalyze = "Analysis Failed"
    /\ analysisData # NoAnalysis
    /\ ~showResults /\ ~indexIsAnalyzing
    /\ indexRequest = NoRequest


(***************************************************************************)
(* Properties of the date inputs (checked under SpecDateInput)             *)
(***************************************************************************)
\* C25: in Map2D and in Earth3DGlobe eventDate is a valid date in every
\* reachable state, whatever is entered into the date input (clearing it
\* included), so that no toISOString call throws.
C25_EventDateValid == ValidDate(eventDate)

\* C25 for Earth3DGlobe alone
C25_GlobeEventDateValid == mapMode = "3d" => ValidDate(eventDate)


(***************************************************************************)
(* Properties of the globe's pointer handlers (checked under SpecPointer)  *)
(***************************************************************************)
\* history: the click now handled follows a pointer-down and a move of
\* more than 5 px in x or y away from it
ClickAfterDrag == gesture.pressed /\ gesture.farthest > 5

\* C26: on the globe a click that follows a pointer-down and a pointer move
\* of more than 5 px in x or y selects no location and resets the drag
\* state; a click without such a move selects exactly one location; for
\* every sequence of pointer-down, move, out and click events.
C26_DragNeverSelects ==
    [][ (\E place \in ClickPlaces : HandleClick(place)) =>
          IF ClickAfterDrag
          THEN /\ earthPicks' = earthPicks
               /\ ~isDragging' /\ dragStart' = NoPoint
          ELSE /\ BagCardinality(earthPicks') = BagCardinality(earthPicks) + 1
               /\ ~isDragging' /\ dragStart' = NoPoint ]_vars

\* every onClick call is for a click that was not a drag: a place is handed
\* over only from the promises handleClick started
C26_OnClickOnlyFromPicks ==
    [][ lastOnClick' # lastOnClick => BagIn(lastOnClick', earthPicks) ]_vars

\* the click that ended a drag has been ignored and the drag state reset,
\* after an earlier plain click selected a place
C26_Witness ==
    /\ ~gesture.pressed /\ gesture.click = "ignored"
    /\ dragStart = NoPoint /\ ~isDragging
    /\ lastOnClick = NewYork
    /\ earthPicks = EmptyBag
    /\ hoverPoint = [x |-> 0, y |-> 0]


(***************************************************************************)
(* Properties of getCurrentLocation (checked under SpecLocate)             *)
(***************************************************************************)
\* C27: getCurrentLocation tries GPS first and consults the IP-based
\* location only after the GPS callback reported an error; a location
\* obtained by IP is named with the suffix '(Approximate)'; and on every
\* path (unsupported, GPS success, IP success, both failed)
\* isGettingLocation ends false.
C27_GpsFirstThenIp ==
    /\ [](\A run \in BagToSet(locating) : run.stage = "ip" => run.gps = "error")
    /\ [](lastLocate.path \in {"ip", "failed"} => lastLocate.gps = "error")
    /\ [](lastLocate.path = "gps" => lastLocate.gps = "ok")
    /\ [](lastLocate.path = "ip" =>
            /\ Len(lastLocate.name) > 1
            /\ lastLocate.name[Len(lastLocate.name)] = " (Approximate)")
    /\ [](locating = EmptyBag => ~isGettingLocation)
    /\ [][ lastLocate' # lastLocate =>
             /\ lastLocate'.path \in {"unsupported", "gps", "ip", "failed"}
             /\ ~isGettingLocation' ]_vars

\* GPS reported an error, the IP lookup found a place and it was selected
\* under its marked name
C27_Witness ==
    /\ lastLocate.path = "ip" /\ lastLocate.gps = "error"
    /\ selectedLocation = NewYork
    /\ currentLocation = NewYork
    /\ ~isGettingLocation /\ locating = EmptyBag

\* the other three paths have each been taken
C27_WitnessGps == lastLocate.path = "gps" /\ ~isGettingLocation
C27_WitnessFailed == lastLocate.path = "failed" /\ ~isGettingLocation
C27_WitnessUnsupported == lastLocate.path = "unsupported" /\ ~isGettingLocation

====
